---- MODULE Spec2Model ----
(***************************************************************************)
(* Model of the RAG query pipeline of backend/main.py: query embedding,    *)
(* vector retrieval, per-document diversity cap (mmr_diversify), rerank    *)
(* (rerank_documents), token-budgeted context assembly and answer          *)
(* generation (generate_answer) and the /query handler (query_documents),  *)
(* two invocations of that handler served together, and the /upload        *)
(* handler (upload_document) writing chunks to the vector index.           *)
(*                                                                         *)
(* Texts are abstract: a text is a record                                  *)
(*   [name, chars, stripped, toks]                                         *)
(* where chars = len(text), stripped = len(text.strip()) and toks is the   *)
(* number of cl100k_base tokens of the text.  Scores are small naturals.   *)
(* A python dict is a TLA+ function on strings (a record), a missing key   *)
(* is a string outside its DOMAIN.                                         *)
(***************************************************************************)
EXTENDS Integers, Sequences, FiniteSets, TLC

\* ------------------------------------------------------------------
\* Bounds of the model
\* ------------------------------------------------------------------
MaxLen == 4

MaxCap == 3

MaxScore == 2

MaxRelevance == 2

MaxTopK == 4

MaxTopN == 3

MaxCite == 2

MaxUploads == 2

MaxTime == 1

\* ------------------------------------------------------------------
\* Program constants
\* ------------------------------------------------------------------
MAX_CONTEXT_TOKENS == 6000

batch_size == 100

\* cl100k_base tokens that the prefix "[i] " adds in front of a text
\* ("[", the digit, "]"; the blank merges with the first word)
BlockPrefixTokens == 3

\* characters of the prefix "[i] " for i < 10
BlockPrefixChars == 4

\* ------------------------------------------------------------------
\* Texts
\* ------------------------------------------------------------------
TxtSolar == [name |-> "solar", chars |-> 39, stripped |-> 39, toks |-> 11]

TxtWind == [name |-> "wind", chars |-> 14000, stripped |-> 14000, toks |-> 2997]

TxtGrid == [name |-> "grid", chars |-> 14004, stripped |-> 14004, toks |-> 2997]

TxtHuge == [name |-> "huge", chars |-> 20000, stripped |-> 20000, toks |-> 6001]

QEmpty == [name |-> "", chars |-> 0, stripped |-> 0, toks |-> 0]

QBlank == [name |-> "   ", chars |-> 3, stripped |-> 0, toks |-> 1]

QSolar == [name |-> "What is solar panel efficiency?", chars |-> 31, stripped |-> 31, toks |-> 6]

QWind == [name |-> "How do wind turbines compare to solar panels?", chars |-> 45, stripped |-> 45, toks |-> 9]

QuerySet == {QEmpty, QBlank, QSolar, QWind}

ScoreSet == 1..MaxScore

RelevanceSet == 1..MaxRelevance

\* ------------------------------------------------------------------
\* Helpers
\* ------------------------------------------------------------------
Min(a, b) == IF a < b THEN a ELSE b

Max(a, b) == IF a > b THEN a ELSE b

Range(s) == {s[i] : i \in 1..Len(s)}

\* sequences over S of length at most n
SeqUpTo(S, n) == UNION {[1..k -> S] : k \in 0..n}

Reverse(s) == [i \in 1..Len(s) |-> s[Len(s) + 1 - i]]

\* python s[:n]
PySlice(s, n) ==
    IF n >= 0 THEN SubSeq(s, 1, Min(n, Len(s)))
    ELSE SubSeq(s, 1, Max(Len(s) + n, 0))

\* python d.get(k, default)
DictGet(d, k, default) == IF k \in DOMAIN d THEN d[k] ELSE default

\* python {k: v for k, v in d.items() if k != key}
DictWithout(d, key) == [k \in (DOMAIN d) \ {key} |-> d[k]]

\* python {**d, key: value} and d[key] = value
DictSet(d, key, value) == [k \in (DOMAIN d) \cup {key} |-> IF k = key THEN value ELSE d[k]]

EmptyDict == [k \in {} |-> 0]

\* get_token_count: tiktoken's count, or len(text) // 4 when tiktoken raises
get_token_count(chars, toks, tiktoken_ok) ==
    IF tiktoken_ok THEN toks ELSE chars \div 4

\* get_token_count(f"[{i}] {doc['text']}")
block_token_count(text, tiktoken_ok) ==
    get_token_count(BlockPrefixChars + text.chars, BlockPrefixTokens + text.toks, tiktoken_ok)

\* ------------------------------------------------------------------
\* mmr_diversify
\* ------------------------------------------------------------------
doc_id_of(doc) == DictGet(doc.metadata, "document_id", "unknown")

RECURSIVE mmr_loop(_, _, _, _)
mmr_loop(docs, max_per_doc, seen, diversified) ==
    IF docs = <<>> THEN diversified
    ELSE LET doc == Head(docs)
             doc_id == doc_id_of(doc)
             seen1 == IF doc_id \in DOMAIN seen THEN seen ELSE DictSet(seen, doc_id, 0)
         IN  IF seen1[doc_id] < max_per_doc
             THEN mmr_loop(Tail(docs), max_per_doc,
                           [seen1 EXCEPT ![doc_id] = @ + 1], Append(diversified, doc))
             ELSE mmr_loop(Tail(docs), max_per_doc, seen1, diversified)

\* seen[doc_id] <= max_per_doc instead of <
mmr_diversify_off_by_one(docs, max_per_doc) ==
    mmr_loop(docs, max_per_doc + 1, EmptyDict, <<>>)

\* diversified.insert(0, doc) instead of append
mmr_diversify_reversed(docs, max_per_doc) ==
    Reverse(mmr_loop(docs, max_per_doc, EmptyDict, <<>>))

mmr_diversify(docs, max_per_doc) == mmr_loop(docs, max_per_doc, EmptyDict, <<>>)

\* ------------------------------------------------------------------
\* The vector index (Pinecone) and the vectors it may hold
\* ------------------------------------------------------------------
Vector(id, document_id, chunk_index, text) ==
    [id |-> id,
     metadata |-> [document_id |-> document_id, chunk_index |-> chunk_index, text |-> text]]

VSolar == Vector("d1_0", "d1", 0, TxtSolar)

VWind == Vector("d1_1", "d1", 1, TxtWind)

VGrid == Vector("d1_2", "d1", 2, TxtGrid)

VHuge == Vector("d2_0", "d2", 0, TxtHuge)

\* vectors written to the shared index by another writer: one without a
\* text payload, one without a document_id
VNoText == [id |-> "x_0", metadata |-> [document_id |-> "d2", chunk_index |-> 1]]

VNoDocId == [id |-> "x_1", metadata |-> [chunk_index |-> 0, text |-> TxtSolar]]

VNoText2 == [id |-> "x_2", metadata |-> [document_id |-> "d2", chunk_index |-> 2]]

\* two more short chunks of d1
VSolarB == Vector("d1_3", "d1", 3, TxtSolar)

VSolarC == Vector("d1_4", "d1", 4, TxtSolar)

\* cosine similarity (in hundredths) of each vector to the embedding of the
\* two non-blank queries
SimSolar ==
    [d1_0 |-> 90, d1_1 |-> 70, d1_2 |-> 70, d2_0 |-> 50, x_0 |-> 80, x_1 |-> 60, x_2 |-> 75,
     d1_3 |-> 85, d1_4 |-> 80]

SimWind ==
    [d1_0 |-> 40, d1_1 |-> 90, d1_2 |-> 80, d2_0 |-> 80, x_0 |-> 30, x_1 |-> 30, x_2 |-> 85,
     d1_3 |-> 35, d1_4 |-> 30]

similarity(query, v) == IF query = QSolar THEN SimSolar[v.id] ELSE SimWind[v.id]

IndexChoices ==
    { {},
      {VNoText},
      {VSolar},
      {VSolar, VNoText, VNoDocId},
      {VNoText, VNoText2, VHuge},
      {VSolar, VWind, VGrid},
      {VSolar, VSolarB, VSolarC},
      {VSolar, VWind, VHuge},
      {VSolar, VWind, VGrid, VHuge} }

\* ------------------------------------------------------------------
\* State
\* ------------------------------------------------------------------
VARIABLES
    index,          \* content of the vector index: a set of vectors
    pc,             \* position of the query task
    req,            \* QueryRequest: query, top_k, rerank_top_n
    calls,          \* external service calls made for the current query, in order
    query_tokens,   \* query_documents: query_tokens
    matches,        \* query_documents: results.matches
    retrieved,      \* query_documents: docs after "Extract documents"
    max_per_doc,    \* mmr_diversify: argument max_per_doc
    diversified,    \* query_documents: docs after mmr_diversify
    rerank_status,  \* how rerank_documents ended: "none", "ok", "failed", "empty"
    ranked,         \* query_documents: docs after rerank_documents
    block_costs,    \* generate_answer: block_tokens of every block it measured
    context_blocks, \* generate_answer: context_blocks
    sources,        \* generate_answer: sources
    response,       \* what the handler returned: none, an error or a QueryResponse
    timing,         \* query_documents: timing, stage -> milliseconds
    raised,         \* the exceptions the external calls of the query raised, in order
    running,        \* the query task that is running: 1 or 2
    parked,         \* the locals of the other query task, which is not running
    now,            \* int(time.time()): the clock, in whole seconds
    upload_pc,      \* position of the upload task
    upload_req,     \* upload_document: file / text of the request
    doc_id,         \* upload_document: doc_id
    chunks,         \* upload_document: chunks
    vectors,        \* upload_document: vectors
    batch_start,    \* upload_document: i of the upsert loop
    upload_response,\* what upload_document returned: none, an error or an UploadResponse
    uploads,        \* number of upload requests received so far
    index_before,   \* content of the index when the current upload was received
    stored          \* the chunks the index accepted: who stored which chunk under which id

vars == <<index, pc, req, calls, query_tokens, matches, retrieved, max_per_doc,
          diversified, rerank_status, ranked, block_costs, context_blocks,
          sources, response, timing, raised, running, parked,
          now, upload_pc, upload_req, doc_id, chunks, vectors, batch_start,
          upload_response, uploads, index_before, stored>>

locals == <<req, calls, query_tokens, matches, retrieved, max_per_doc,
            diversified, rerank_status, ranked, block_costs, context_blocks,
            sources, response, timing, raised>>

\* the task that is not running
other_task == <<running, parked>>

\* the clock and the state of upload_document
upload_task == <<now, upload_pc, upload_req, doc_id, chunks, vectors, batch_start,
                 upload_response, uploads, index_before, stored>>

NoRequest == [query |-> QEmpty, top_k |-> 0, rerank_top_n |-> 0]

NoResponse == [kind |-> "none"]

HTTPException(status) == [kind |-> "error", status |-> status]

\* the values of the handler's locals before a request is handled
FreshLocals ==
    /\ req = NoRequest
    /\ calls = <<>>
    /\ query_tokens = 0
    /\ matches = <<>>
    /\ retrieved = <<>>
    /\ max_per_doc = 2
    /\ diversified = <<>>
    /\ rerank_status = "none"
    /\ ranked = <<>>
    /\ block_costs = <<>>
    /\ context_blocks = <<>>
    /\ sources = <<>>
    /\ response = NoResponse
    /\ timing = EmptyDict
    /\ raised = <<>>

\* the locals of a task that handles no request
IdleTask ==
    [pc |-> "idle", req |-> NoRequest, calls |-> <<>>, query_tokens |-> 0,
     matches |-> <<>>, retrieved |-> <<>>, max_per_doc |-> 2,
     diversified |-> <<>>, rerank_status |-> "none", ranked |-> <<>>,
     block_costs |-> <<>>, context_blocks |-> <<>>, sources |-> <<>>,
     response |-> NoResponse, timing |-> EmptyDict, raised |-> <<>>]

\* upload_document before a request: no file, no text
NoUploadRequest == [kind |-> "none"]

\* the locals of upload_document before a request is handled
FreshUploadLocals ==
    /\ upload_req = NoUploadRequest
    /\ doc_id = ""
    /\ chunks = <<>>
    /\ vectors = <<>>
    /\ batch_start = 0
    /\ upload_response = NoResponse

\* no upload has been received; the clock counts from the start of the run
NoUpload ==
    /\ now = 0
    /\ upload_pc = "idle"
    /\ FreshUploadLocals
    /\ uploads = 0
    /\ index_before = index
    /\ stored = {}

Init ==
    /\ index \in IndexChoices
    /\ pc = "idle"
    /\ FreshLocals
    /\ running = 1
    /\ parked = IdleTask
    /\ NoUpload

\* ------------------------------------------------------------------
\* POST /query : query_documents
\* ------------------------------------------------------------------
RequestSet ==
    [query : QuerySet, top_k : 1..MaxTopK, rerank_top_n : (-1)..MaxTopN]

\* a request arrives
Arrive(r) ==
    /\ req' = r
    /\ UNCHANGED <<calls, query_tokens, matches, retrieved, max_per_doc,
                   diversified, rerank_status, ranked, block_costs,
                   context_blocks, sources, raised>>

\* req.query.strip() is empty, with the strip forgotten
is_blank_without_strip(query) == query.chars = 0

\* not req.query.strip()
is_blank(query) == query.stripped = 0

\* if not req.query.strip(): raise HTTPException(400)
QueryRejected ==
    /\ pc = "idle"
    /\ \E r \in RequestSet :
        /\ is_blank(r.query)
        /\ Arrive(r)
    /\ response' = HTTPException(400)
    /\ pc' = "done"
    /\ UNCHANGED <<index, timing, other_task, upload_task>>

\* the query is not blank: timing = {}
QueryAccepted ==
    /\ pc = "idle"
    /\ \E r \in RequestSet :
        /\ ~is_blank(r.query)
        /\ Arrive(r)
    /\ response' = NoResponse
    /\ timing' = EmptyDict
    /\ pc' = "embed"
    /\ UNCHANGED <<index, other_task, upload_task>>

\* round(time.time() - t0, 3) of a stage, in milliseconds
ElapsedSet(stage) ==
    CASE stage = "embedding" -> {12}
      [] stage = "retrieval" -> {30}
      [] stage = "reranking" -> {0, 180}
      [] stage = "generation" -> {1500}

\* timing[stage] = round(time.time() - t0, 3)
record_stage(t, stage, elapsed) == DictSet(t, stage, elapsed)

\* what the OpenAI client may raise, and the HTTP status the handler maps
\* it to: RateLimitError -> 429, other APIError -> 503, anything else -> 500
OpenAIExceptions == {"RateLimitError", "APIError", "Exception"}

\* except openai.APIError placed before except openai.RateLimitError
openai_error_status_api_first(exception) ==
    CASE exception = "RateLimitError" -> 503
      [] exception = "APIError" -> 503
      [] OTHER -> 500

openai_error_status(exception) ==
    CASE exception = "RateLimitError" -> 429
      [] exception = "APIError" -> 503
      [] OTHER -> 500

Raise(call, exception) == [call |-> call, exception |-> exception]

\* Step 1: get_embedding(req.query) succeeds, then get_token_count(req.query)
EmbedOk ==
    /\ pc = "embed"
    /\ calls' = Append(calls, "embed")
    /\ \E tiktoken_ok \in BOOLEAN :
        query_tokens' = get_token_count(req.query.chars, req.query.toks, tiktoken_ok)
    /\ \E elapsed \in ElapsedSet("embedding") :
        timing' = record_stage(timing, "embedding", elapsed)
    /\ pc' = "retrieve"
    /\ UNCHANGED <<index, req, matches, retrieved, max_per_doc, diversified,
                   rerank_status, ranked, block_costs, context_blocks, sources,
                   response, raised, other_task, upload_task>>

\* the exception of get_embedding swallowed: the handler goes on
EmbedFail_swallowed ==
    /\ pc = "embed"
    /\ calls' = Append(calls, "embed")
    /\ \E exception \in OpenAIExceptions :
        raised' = Append(raised, Raise("embed", exception))
    /\ pc' = "retrieve"
    /\ UNCHANGED <<index, req, query_tokens, matches, retrieved, max_per_doc,
                   diversified, rerank_status, ranked, block_costs,
                   context_blocks, sources, response, timing, other_task, upload_task>>

\* get_embedding raises: RateLimitError -> 429, APIError -> 503, other -> 500
EmbedFail ==
    /\ pc = "embed"
    /\ calls' = Append(calls, "embed")
    /\ \E exception \in OpenAIExceptions :
        /\ raised' = Append(raised, Raise("embed", exception))
        /\ response' = HTTPException(openai_error_status(exception))
    /\ pc' = "done"
    /\ UNCHANGED <<index, req, query_tokens, matches, retrieved, max_per_doc,
                   diversified, rerank_status, ranked, block_costs,
                   context_blocks, sources, timing, other_task, upload_task>>

\* index.query(vector, top_k, include_metadata=True): the top_k vectors of
\* the index by cosine similarity, best first
IsInjective(s) == \A i, j \in 1..Len(s) : s[i] = s[j] => i = j

IsDescending(s) == \A i \in 1..Len(s) - 1 : s[i] >= s[i + 1]

index_query(idx, query, top_k) ==
    LET k == Min(top_k, Cardinality(idx))
        score(v) == similarity(query, v)
    IN  { [i \in 1..k |-> [id |-> vs[i].id, score |-> score(vs[i]), metadata |-> vs[i].metadata]] :
            vs \in { p \in [1..k -> idx] :
                        /\ IsInjective(p)
                        /\ IsDescending([i \in 1..k |-> score(p[i])])
                        /\ \A v \in idx \ Range(p) : \A i \in 1..k : score(v) <= score(p[i]) } }

\* "Extract documents" without the test for a text
RECURSIVE extract_docs_keeps_textless(_)
extract_docs_keeps_textless(ms) ==
    IF ms = <<>> THEN <<>>
    ELSE LET m == Head(ms)
         IN  <<[text |-> DictGet(m.metadata, "text", QEmpty),
                metadata |-> DictWithout(m.metadata, "text"),
                score |-> m.score]>> \o extract_docs_keeps_textless(Tail(ms))

\* "Extract documents": the matches that carry a text, text taken out of
\* the metadata
RECURSIVE extract_docs(_)
extract_docs(ms) ==
    IF ms = <<>> THEN <<>>
    ELSE LET m == Head(ms)
         IN  IF "text" \in DOMAIN m.metadata
             THEN <<[text |-> m.metadata.text,
                     metadata |-> DictWithout(m.metadata, "text"),
                     score |-> m.score]>> \o extract_docs(Tail(ms))
             ELSE extract_docs(Tail(ms))

\* Step 2: index.query succeeds
RetrieveOk ==
    /\ pc = "retrieve"
    /\ calls' = Append(calls, "index_query")
    /\ \E ms \in index_query(index, req.query, req.top_k) :
        /\ matches' = ms
        /\ retrieved' = extract_docs(ms)
    /\ \E elapsed \in ElapsedSet("retrieval") :
        timing' = record_stage(timing, "retrieval", elapsed)
    /\ pc' = "extracted"
    /\ UNCHANGED <<index, req, query_tokens, max_per_doc, diversified,
                   rerank_status, ranked, block_costs, context_blocks, sources,
                   response, raised, other_task, upload_task>>

\* index.query raises: 500 "Vector search failed"
RetrieveFail ==
    /\ pc = "retrieve"
    /\ calls' = Append(calls, "index_query")
    /\ raised' = Append(raised, Raise("index_query", "Exception"))
    /\ response' = HTTPException(500)
    /\ pc' = "done"
    /\ UNCHANGED <<index, req, query_tokens, matches, retrieved, max_per_doc,
                   diversified, rerank_status, ranked, block_costs,
                   context_blocks, sources, timing, other_task, upload_task>>

\* round(x / d) to the nearest integer, ties to even (python round)
RoundDiv(x, d) ==
    LET q == x \div d
        r == x % d
    IN  IF 2 * r < d THEN q
        ELSE IF 2 * r > d THEN q + 1
        ELSE IF q % 2 = 0 THEN q ELSE q + 1

\* costs are in millionths of a USD (the handler rounds to 6 decimals):
\* PRICING["embedding"] = 0.00002 USD per 1K tokens = 1/50 millionth per token
embedding_usd(tokens) == RoundDiv(tokens, 50)

NoMatchAnswer == [text |-> "no_match", citations |-> {}]

\* PRICING["rerank_per_search"] = 0.002 USD
rerank_per_search == 2000

\* the no-match response with the flat rerank cost charged
no_match_response_charges_rerank(q_tokens) ==
    [kind |-> "result",
     answer |-> NoMatchAnswer,
     sources |-> <<>>,
     token_estimate |->
        [embedding_tokens |-> q_tokens,
         llm_input_tokens |-> 0,
         llm_output_tokens |-> 0,
         total_tokens |-> q_tokens,
         costs |-> [embedding_usd |-> embedding_usd(q_tokens),
                    llm_usd |-> 0,
                    rerank_usd |-> rerank_per_search,
                    total_usd |-> embedding_usd(q_tokens) + rerank_per_search]]]

\* the QueryResponse of the no-match path
no_match_response(q_tokens) ==
    [kind |-> "result",
     answer |-> NoMatchAnswer,
     sources |-> <<>>,
     token_estimate |->
        [embedding_tokens |-> q_tokens,
         llm_input_tokens |-> 0,
         llm_output_tokens |-> 0,
         total_tokens |-> q_tokens,
         costs |-> [embedding_usd |-> embedding_usd(q_tokens),
                    llm_usd |-> 0,
                    rerank_usd |-> 0,
                    total_usd |-> embedding_usd(q_tokens)]]]

\* "Handle no results": if not docs: return QueryResponse(...)
NoMatch ==
    /\ pc = "extracted"
    /\ retrieved = <<>>
    /\ response' = DictSet(no_match_response(query_tokens), "timing", timing)
    /\ pc' = "done"
    /\ UNCHANGED <<index, req, calls, query_tokens, matches, retrieved,
                   max_per_doc, diversified, rerank_status, ranked, block_costs,
                   context_blocks, sources, timing, raised, other_task, upload_task>>

\* the handler without the early return of "Handle no results"
Diversify_without_early_return ==
    /\ pc = "extracted"
    /\ max_per_doc' = 2
    /\ diversified' = mmr_diversify(retrieved, 2)
    /\ pc' = "rerank"
    /\ UNCHANGED <<index, req, calls, query_tokens, matches, retrieved,
                   rerank_status, ranked, block_costs, context_blocks, sources,
                   response, timing, raised, other_task, upload_task>>

\* Step 3: docs = mmr_diversify(docs, max_per_doc=2)
Diversify ==
    /\ pc = "extracted"
    /\ retrieved # <<>>
    /\ max_per_doc' = 2
    /\ diversified' = mmr_diversify(retrieved, 2)
    /\ pc' = "rerank"
    /\ UNCHANGED <<index, req, calls, query_tokens, matches, retrieved,
                   rerank_status, ranked, block_costs, context_blocks, sources,
                   response, timing, raised, other_task, upload_task>>

\* ------------------------------------------------------------------
\* rerank_documents
\* ------------------------------------------------------------------
\* cohere rerank(query, documents, top_n): the top_n documents by relevance,
\* best first, each as {index (from 0), relevance_score}; the service
\* rejects a top_n below 1
rerank_service(n_documents, top_n) ==
    IF top_n < 1 THEN {}
    ELSE { rs \in [1..Min(top_n, n_documents) ->
                     [index : 0..(n_documents - 1), relevance_score : RelevanceSet]] :
             /\ \A i, j \in DOMAIN rs : rs[i].index = rs[j].index => i = j
             /\ \A i \in DOMAIN rs : i + 1 \in DOMAIN rs =>
                    rs[i].relevance_score >= rs[i + 1].relevance_score }

\* the loop over rerank.results[1:]
rerank_results_skips_first(docs, results) ==
    [i \in 1..(Len(results) - 1) |->
        DictSet(docs[results[i + 1].index + 1], "rerank_score",
                results[i + 1].relevance_score)]

\* for r in rerank.results: doc = docs[r.index]; doc["rerank_score"] = ...;
\* results.append(doc)
rerank_results(docs, results) ==
    [i \in 1..Len(results) |->
        DictSet(docs[results[i].index + 1], "rerank_score", results[i].relevance_score)]

\* the top_n sent to the service: min(top_n, len(docs))
rerank_request_top_n_all(docs, top_n) == Len(docs)

rerank_request_top_n(docs, top_n) == Min(top_n, Len(docs))

\* on failure the whole list is returned instead of docs[:top_n]
rerank_documents_no_slice(docs, top_n, service) ==
    IF docs = <<>> THEN <<>>
    ELSE IF service[1] = "ok" THEN rerank_results(docs, service[2])
    ELSE docs

\* the value rerank_documents returns; service is <<"ok", results>> or
\* <<"raise">>
rerank_documents(docs, top_n, service) ==
    IF docs = <<>> THEN <<>>
    ELSE IF service[1] = "ok" THEN rerank_results(docs, service[2])
    ELSE PySlice(docs, top_n)

\* the rerank call made a second time
rerank_calls_retry(docs, cs) ==
    IF docs = <<>> THEN cs ELSE Append(Append(cs, "rerank"), "rerank")

rerank_calls(docs, cs) == IF docs = <<>> THEN cs ELSE Append(cs, "rerank")

\* Step 4: the rerank call succeeds (or the list is empty and no call is made)
RerankOk ==
    /\ pc = "rerank"
    /\ IF diversified = <<>>
       THEN ranked' = rerank_documents(diversified, req.rerank_top_n, <<"none">>)
       ELSE \E results \in rerank_service(Len(diversified),
                    rerank_request_top_n(diversified, req.rerank_top_n)) :
                ranked' = rerank_documents(diversified, req.rerank_top_n, <<"ok", results>>)
    /\ rerank_status' = IF diversified = <<>> THEN "empty" ELSE "ok"
    /\ calls' = rerank_calls(diversified, calls)
    /\ \E elapsed \in ElapsedSet("reranking") :
        timing' = record_stage(timing, "reranking", elapsed)
    /\ pc' = "generate"
    /\ UNCHANGED <<index, req, query_tokens, matches, retrieved, max_per_doc,
                   diversified, block_costs, context_blocks, sources, response,
                   raised, other_task, upload_task>>

\* the rerank exception surfaced as an error instead of degrading
RerankFail_aborts ==
    /\ pc = "rerank"
    /\ diversified # <<>>
    /\ rerank_status' = "failed"
    /\ calls' = rerank_calls(diversified, calls)
    /\ raised' = Append(raised, Raise("rerank", "Exception"))
    /\ response' = HTTPException(500)
    /\ pc' = "done"
    /\ UNCHANGED <<index, req, query_tokens, matches, retrieved, max_per_doc,
                   diversified, ranked, block_costs, context_blocks, sources,
                   timing, other_task, upload_task>>

\* Step 4: the rerank call raises: "returning original order"
RerankFail ==
    /\ pc = "rerank"
    /\ diversified # <<>>
    /\ ranked' = rerank_documents(diversified, req.rerank_top_n, <<"raise">>)
    /\ rerank_status' = "failed"
    /\ calls' = rerank_calls(diversified, calls)
    /\ raised' = Append(raised, Raise("rerank", "Exception"))
    /\ \E elapsed \in ElapsedSet("reranking") :
        timing' = record_stage(timing, "reranking", elapsed)
    /\ pc' = "generate"
    /\ UNCHANGED <<index, req, query_tokens, matches, retrieved, max_per_doc,
                   diversified, block_costs, context_blocks, sources, response,
                   other_task, upload_task>>

\* ------------------------------------------------------------------
\* generate_answer
\* ------------------------------------------------------------------
\* f"[{i}] {doc['text']}"
context_block(i, doc) == [cite |-> i, text |-> doc.text]

\* doc["text"][:300] + "..." if len(doc["text"]) > 300 else doc["text"]
preview(text) ==
    [of |-> text.name, chars |-> IF text.chars > 300 THEN 300 + 3 ELSE text.chars]

\* sources numbered from 0
source_record_from_zero(i, doc) ==
    [id |-> i - 1,
     preview |-> preview(doc.text),
     metadata |-> doc.metadata,
     score |-> DictGet(doc, "rerank_score", DictGet(doc, "score", 0))]

\* the score taken from the similarity search only
source_record_similarity_only(i, doc) ==
    [id |-> i,
     preview |-> preview(doc.text),
     metadata |-> doc.metadata,
     score |-> DictGet(doc, "score", 0)]

source_record(i, doc) ==
    [id |-> i,
     preview |-> preview(doc.text),
     metadata |-> doc.metadata,
     score |-> DictGet(doc, "rerank_score", DictGet(doc, "score", 0))]

\* if total_context_tokens + block_tokens > MAX_CONTEXT_TOKENS: break
over_budget_ignores_block(total_context_tokens, block_tokens) ==
    total_context_tokens > MAX_CONTEXT_TOKENS

over_budget_at_ceiling(total_context_tokens, block_tokens) ==
    total_context_tokens + block_tokens >= MAX_CONTEXT_TOKENS

over_budget(total_context_tokens, block_tokens) ==
    total_context_tokens + block_tokens > MAX_CONTEXT_TOKENS

\* the loop of generate_answer from candidate i on; tiktoken_ok[i] tells
\* whether tiktoken counted block i or the len // 4 fallback did
RECURSIVE budget_loop(_, _, _, _, _)
budget_loop(docs, tiktoken_ok, i, total_context_tokens, acc) ==
    IF i > Len(docs) THEN acc
    ELSE LET doc == docs[i]
             block == context_block(i, doc)
             block_tokens == block_token_count(doc.text, tiktoken_ok[i])
             measured == Append(acc.block_costs, block_tokens)
         IN  IF over_budget(total_context_tokens, block_tokens)
             THEN [acc EXCEPT !.block_costs = measured]
             ELSE budget_loop(docs, tiktoken_ok, i + 1,
                              total_context_tokens + block_tokens,
                              [context_blocks |-> Append(acc.context_blocks, block),
                               sources |-> Append(acc.sources, source_record(i, doc)),
                               block_costs |-> measured])

fill_context(docs, tiktoken_ok) ==
    budget_loop(docs, tiktoken_ok, 1, 0,
                [context_blocks |-> <<>>, sources |-> <<>>, block_costs |-> <<>>])

\* what the chat completion may return: a text (with the citation numbers
\* that occur in it) and the usage the service reports
ChatCompletionSet ==
    { [answer |-> [text |-> "llm", citations |-> {}],
       usage |-> [input |-> 6100, output |-> 800, total |-> 6900]] }
    \cup
    { [answer |-> [text |-> "llm", citations |-> cs],
       usage |-> [input |-> 120, output |-> 40, total |-> 160]] :
         cs \in {{}} \cup {{c} : c \in 1..MaxCite} }

\* costs in millionths of a USD: gpt4_input 0.01, gpt4_output 0.03 per 1K
\* tokens, rerank_per_search 0.002
query_costs(q_tokens, usage) ==
    [embedding_usd |-> embedding_usd(q_tokens),
     llm_input_usd |-> usage.input * 10,
     llm_output_usd |-> usage.output * 30,
     rerank_usd |-> rerank_per_search,
     total_usd |-> RoundDiv(q_tokens + 50 * (usage.input * 10 + usage.output * 30 + rerank_per_search), 50)]

\* sum(timing.values())
RECURSIVE sum_values(_, _)
sum_values(t, keys) ==
    IF keys = {} THEN 0
    ELSE LET k == CHOOSE x \in keys : TRUE
         IN  t[k] + sum_values(t, keys \ {k})

\* timing["generation"] = ...; timing["total"] = round(sum(timing.values()), 3)
final_timing(t, elapsed) ==
    LET t1 == record_stage(t, "generation", elapsed)
    IN  DictSet(t1, "total", sum_values(t1, DOMAIN t1))

\* Step 5: generate_answer returns, the handler returns the QueryResponse
GenerateOk ==
    /\ pc = "generate"
    /\ \E tiktoken_ok \in [1..Len(ranked) -> BOOLEAN] :
        LET filled == fill_context(ranked, tiktoken_ok)
        IN  /\ block_costs' = filled.block_costs
            /\ context_blocks' = filled.context_blocks
            /\ sources' = filled.sources
            /\ \E completion \in ChatCompletionSet, elapsed \in ElapsedSet("generation") :
                LET usage == completion.usage IN
                /\ timing' = final_timing(timing, elapsed)
                /\ response' =
                    [kind |-> "result",
                     answer |-> completion.answer,
                     sources |-> filled.sources,
                     timing |-> final_timing(timing, elapsed),
                     token_estimate |->
                        [embedding_tokens |-> query_tokens,
                         llm_input_tokens |-> usage.input,
                         llm_output_tokens |-> usage.output,
                         total_tokens |-> query_tokens + usage.total,
                         costs |-> query_costs(query_tokens, usage)]]
    /\ calls' = Append(calls, "chat")
    /\ pc' = "done"
    /\ UNCHANGED <<index, req, query_tokens, matches, retrieved, max_per_doc,
                   diversified, rerank_status, ranked, raised, other_task, upload_task>>

\* the chat completion raises: RateLimitError -> 429, APIError -> 503,
\* other -> 500
GenerateFail ==
    /\ pc = "generate"
    /\ \E tiktoken_ok \in [1..Len(ranked) -> BOOLEAN] :
        LET filled == fill_context(ranked, tiktoken_ok)
        IN  /\ block_costs' = filled.block_costs
            /\ context_blocks' = filled.context_blocks
            /\ sources' = filled.sources
    /\ \E exception \in OpenAIExceptions :
        /\ raised' = Append(raised, Raise("chat", exception))
        /\ response' = HTTPException(openai_error_status(exception))
    /\ calls' = Append(calls, "chat")
    /\ pc' = "done"
    /\ UNCHANGED <<index, req, query_tokens, matches, retrieved, max_per_doc,
                   diversified, rerank_status, ranked, timing, other_task, upload_task>>

Next ==
    \/ QueryRejected
    \/ QueryAccepted
    \/ EmbedOk
    \/ EmbedFail
    \/ RetrieveOk
    \/ RetrieveFail
    \/ NoMatch
    \/ Diversify
    \/ RerankOk
    \/ RerankFail
    \/ GenerateOk
    \/ GenerateFail

Spec == Init /\ [][Next]_vars

\* ------------------------------------------------------------------
\* mmr_diversify on its own: any candidate list, any max_per_doc >= 0
\* ------------------------------------------------------------------
CandidateSet ==
    [text : {TxtSolar},
     metadata : {[document_id |-> d, chunk_index |-> 0] : d \in {"d1", "d2", "unknown"}}
                    \cup {[chunk_index |-> 0]},
     score : ScoreSet]

InitDiversify ==
    /\ index = {}
    /\ pc = "call_mmr_diversify"
    /\ req = NoRequest
    /\ calls = <<>>
    /\ query_tokens = 0
    /\ matches = <<>>
    /\ retrieved \in SeqUpTo(CandidateSet, MaxLen)
    /\ max_per_doc \in 0..MaxCap
    /\ diversified = <<>>
    /\ rerank_status = "none"
    /\ ranked = <<>>
    /\ block_costs = <<>>
    /\ context_blocks = <<>>
    /\ sources = <<>>
    /\ response = NoResponse
    /\ timing = EmptyDict
    /\ raised = <<>>
    /\ running = 1
    /\ parked = IdleTask
    /\ NoUpload

CallDiversify ==
    /\ pc = "call_mmr_diversify"
    /\ diversified' = mmr_diversify(retrieved, max_per_doc)
    /\ pc' = "returned_mmr_diversify"
    /\ UNCHANGED <<index, req, calls, query_tokens, matches, retrieved,
                   max_per_doc, rerank_status, ranked, block_costs,
                   context_blocks, sources, response, timing, raised,
                   other_task, upload_task>>

NextDiversify == CallDiversify

SpecDiversify == InitDiversify /\ [][NextDiversify]_vars

\* ------------------------------------------------------------------
\* Two invocations of query_documents served by one process
\* ------------------------------------------------------------------
\* the locals of the running invocation of query_documents
Locals ==
    [pc |-> pc, req |-> req, calls |-> calls, query_tokens |-> query_tokens,
     matches |-> matches, retrieved |-> retrieved, max_per_doc |-> max_per_doc,
     diversified |-> diversified, rerank_status |-> rerank_status,
     ranked |-> ranked, block_costs |-> block_costs,
     context_blocks |-> context_blocks, sources |-> sources,
     response |-> response, timing |-> timing, raised |-> raised]

\* timing kept in one module-level dict that every invocation writes to
Resume_shared_timing(ctx) ==
    /\ pc' = ctx.pc
    /\ req' = ctx.req
    /\ calls' = ctx.calls
    /\ query_tokens' = ctx.query_tokens
    /\ matches' = ctx.matches
    /\ retrieved' = ctx.retrieved
    /\ max_per_doc' = ctx.max_per_doc
    /\ diversified' = ctx.diversified
    /\ rerank_status' = ctx.rerank_status
    /\ ranked' = ctx.ranked
    /\ block_costs' = ctx.block_costs
    /\ context_blocks' = ctx.context_blocks
    /\ sources' = ctx.sources
    /\ response' = ctx.response
    /\ timing' = timing
    /\ raised' = ctx.raised

\* the invocation with the locals ctx goes on: every name the handler and
\* its helpers assign is a local of the invocation
Resume(ctx) ==
    /\ pc' = ctx.pc
    /\ req' = ctx.req
    /\ calls' = ctx.calls
    /\ query_tokens' = ctx.query_tokens
    /\ matches' = ctx.matches
    /\ retrieved' = ctx.retrieved
    /\ max_per_doc' = ctx.max_per_doc
    /\ diversified' = ctx.diversified
    /\ rerank_status' = ctx.rerank_status
    /\ ranked' = ctx.ranked
    /\ block_costs' = ctx.block_costs
    /\ context_blocks' = ctx.context_blocks
    /\ sources' = ctx.sources
    /\ response' = ctx.response
    /\ timing' = ctx.timing
    /\ raised' = ctx.raised

\* the serving layer lets the other invocation run, between two stages of
\* the running one
Switch ==
    /\ parked.pc \notin {"idle", "done"}
    /\ running' = 3 - running
    /\ parked' = Locals
    /\ Resume(parked)
    /\ UNCHANGED <<index, upload_task>>

\* the index the two queries read
ConcurrentIndex == {VNoText2, VWind}

\* the two requests: on ConcurrentIndex the best match of the first has no
\* text, the best match of the second has one
ConcurrentRequestSet ==
    [query : {QSolar, QWind}, top_k : {1}, rerank_top_n : {1}]

\* the locals of an invocation whose request passed the blank check
Accepted(r) == [IdleTask EXCEPT !.pc = "embed", !.req = r]

\* both requests have been accepted
InitConcurrent ==
    /\ index = ConcurrentIndex
    /\ running = 1
    /\ pc = "embed"
    /\ req \in ConcurrentRequestSet
    /\ calls = <<>>
    /\ query_tokens = 0
    /\ matches = <<>>
    /\ retrieved = <<>>
    /\ max_per_doc = 2
    /\ diversified = <<>>
    /\ rerank_status = "none"
    /\ ranked = <<>>
    /\ block_costs = <<>>
    /\ context_blocks = <<>>
    /\ sources = <<>>
    /\ response = NoResponse
    /\ timing = EmptyDict
    /\ raised = <<>>
    /\ \E r \in ConcurrentRequestSet : parked = Accepted(r)
    /\ NoUpload

NextConcurrent ==
    \/ EmbedOk
    \/ EmbedFail
    \/ RetrieveOk
    \/ RetrieveFail
    \/ NoMatch
    \/ Diversify
    \/ RerankOk
    \/ RerankFail
    \/ GenerateOk
    \/ GenerateFail
    \/ Switch

SpecConcurrent == InitConcurrent /\ [][NextConcurrent]_vars

\* ------------------------------------------------------------------
\* POST /upload : upload_document
\* ------------------------------------------------------------------
\* the state of the query tasks
query_task == <<pc, req, calls, query_tokens, matches, retrieved, max_per_doc,
                diversified, rerank_status, ranked, block_costs,
                context_blocks, sources, response, timing, raised, running,
                parked>>

\* a chunk the splitter cuts from a longer document
TxtNote == [name |-> "note", chars |-> 3600, stripped |-> 3600, toks |-> 900]

\* documents: stripped = len(content.strip()), chunks = what
\* splitter.split_text(content) returns
DocBlank == [name |-> "blank", stripped |-> 0, chunks |-> <<>>]

DocSolar == [name |-> "solar", stripped |-> 39, chunks |-> <<TxtSolar>>]

DocNotes == [name |-> "notes", stripped |-> 7000, chunks |-> <<TxtNote, TxtSolar>>]

\* a document of one chunk more than an upsert batch holds
DocLong ==
    [name |-> "long", stripped |-> 350000,
     chunks |-> [i \in 1..(batch_size + 1) |-> TxtNote]]

\* file names: name = file.filename, ext = the suffix of file.filename.lower()
FileTxt == [name |-> "Notes.TXT", ext |-> "txt"]

FileExe == [name |-> "notes.exe", ext |-> "exe"]

\* how "data = await file.read()" and "data.decode('utf-8')" end
ReadOutcomes == {"ok", "UnicodeDecodeError", "Exception"}

UploadRequestSet ==
    {NoUploadRequest}
    \cup [kind : {"text"}, content : {DocBlank, DocSolar, DocNotes, DocLong}]
    \cup [kind : {"file"}, filename : {FileTxt, FileExe},
          content : {DocBlank, DocSolar}, read : ReadOutcomes]

\* filename.endswith(".pdf") or filename.endswith((".txt", ".md"))
supported(filename) == filename.ext \in {"pdf", "txt", "md"}

\* the status "Extract content based on input type" raises, 0 if none
extract_error(r) ==
    IF r.kind = "none" THEN 400
    ELSE IF r.kind = "file"
         THEN IF r.read = "Exception" THEN 500
              ELSE IF ~supported(r.filename) THEN 400
              ELSE IF r.read = "UnicodeDecodeError" THEN 400
              ELSE 0
    ELSE IF r.content.stripped = 0 THEN 400
    ELSE 0

\* f"{file.filename}_{int(time.time())}" / f"text_{int(time.time())}"
make_doc_id(r, t) ==
    (IF r.kind = "file" THEN r.filename.name ELSE "text") \o "_" \o ToString(t)

\* f"{doc_id}_{c['metadata']['chunk_index']}"
vector_id(document_id, chunk_index) ==
    document_id \o "_" \o ToString(chunk_index)

\* chunk_text: for i, chunk in enumerate(chunks): results.append(...)
chunk_text(content, document_id) ==
    [i \in 1..Len(content.chunks) |->
        [text |-> content.chunks[i],
         metadata |-> [document_id |-> document_id, chunk_index |-> i - 1]]]

\* for c in chunks: vectors.append({"id": ..., "metadata": {**c["metadata"], "text": c["text"]}})
make_vectors(cs, document_id) ==
    [i \in 1..Len(cs) |->
        Vector(vector_id(document_id, cs[i].metadata.chunk_index),
               cs[i].metadata.document_id, cs[i].metadata.chunk_index, cs[i].text)]

\* vectors[i:i + batch_size]
batch_of(vs, i) == SubSeq(vs, i + 1, Min(i + batch_size, Len(vs)))

\* index.upsert(vectors=batch): a vector replaces the stored one of the same id
upsert(idx, batch) ==
    {v \in idx : \A i \in 1..Len(batch) : batch[i].id # v.id} \cup Range(batch)

\* the record of who stored which chunk
stored_by(upload, batch) ==
    {[upload |-> upload,
      document_id |-> batch[i].metadata.document_id,
      chunk_index |-> batch[i].metadata.chunk_index,
      id |-> batch[i].id,
      text |-> batch[i].metadata.text] : i \in 1..Len(batch)}

UploadResponse(n_chunks, document_id) ==
    [kind |-> "uploaded", chunks_created |-> n_chunks, document_id |-> document_id]

\* a request arrives at upload_document
UploadArrive(r) ==
    /\ upload_pc \in {"idle", "done"}
    /\ uploads < MaxUploads
    /\ uploads' = uploads + 1
    /\ upload_req' = r
    /\ index_before' = index
    /\ chunks' = <<>>
    /\ vectors' = <<>>
    /\ batch_start' = 0

\* no file and no text, an unsupported or unreadable file, or an empty text
UploadRejected ==
    /\ \E r \in UploadRequestSet :
        /\ extract_error(r) # 0
        /\ UploadArrive(r)
        /\ upload_response' = HTTPException(extract_error(r))
    /\ doc_id' = ""
    /\ upload_pc' = "done"
    /\ UNCHANGED <<index, now, stored, query_task>>

\* the content is extracted and doc_id is made from the clock
UploadAccepted ==
    /\ \E r \in UploadRequestSet :
        /\ extract_error(r) = 0
        /\ UploadArrive(r)
        /\ doc_id' = make_doc_id(r, now)
    /\ upload_response' = NoResponse
    /\ upload_pc' = "chunk"
    /\ UNCHANGED <<index, now, stored, query_task>>

\* chunk_text returns at least one chunk
ChunkOk ==
    /\ upload_pc = "chunk"
    /\ upload_req.content.chunks # <<>>
    /\ chunks' = chunk_text(upload_req.content, doc_id)
    /\ upload_pc' = "embed"
    /\ UNCHANGED <<index, now, upload_req, doc_id, vectors, batch_start,
                   upload_response, uploads, index_before, stored, query_task>>

\* if not chunks: raise HTTPException(400, "Document produced no valid chunks")
ChunkEmpty ==
    /\ upload_pc = "chunk"
    /\ upload_req.content.chunks = <<>>
    /\ upload_response' = HTTPException(400)
    /\ upload_pc' = "done"
    /\ UNCHANGED <<index, now, upload_req, doc_id, chunks, vectors, batch_start,
                   uploads, index_before, stored, query_task>>

\* chunk_text raises: HTTPException(500, "Chunking failed")
ChunkFail ==
    /\ upload_pc = "chunk"
    /\ upload_response' = HTTPException(500)
    /\ upload_pc' = "done"
    /\ UNCHANGED <<index, now, upload_req, doc_id, chunks, vectors, batch_start,
                   uploads, index_before, stored, query_task>>

\* every chunk is embedded and the vectors are prepared
EmbedChunksOk ==
    /\ upload_pc = "embed"
    /\ vectors' = make_vectors(chunks, doc_id)
    /\ batch_start' = 0
    /\ upload_pc' = "upsert"
    /\ UNCHANGED <<index, now, upload_req, doc_id, chunks, upload_response,
                   uploads, index_before, stored, query_task>>

\* get_embedding raises for one of the chunks
EmbedChunksFail ==
    /\ upload_pc = "embed"
    /\ \E exception \in OpenAIExceptions :
        upload_response' = HTTPException(openai_error_status(exception))
    /\ upload_pc' = "done"
    /\ UNCHANGED <<index, now, upload_req, doc_id, chunks, vectors, batch_start,
                   uploads, index_before, stored, query_task>>

\* index.upsert(vectors=batch) succeeds; after the last batch the handler
\* returns the UploadResponse
UpsertBatchOk ==
    /\ upload_pc = "upsert"
    /\ LET batch == batch_of(vectors, batch_start)
       IN  /\ index' = upsert(index, batch)
           /\ stored' = stored \cup stored_by(uploads, batch)
    /\ batch_start' = batch_start + batch_size
    /\ IF batch_start + batch_size >= Len(vectors)
       THEN /\ upload_response' = UploadResponse(Len(chunks), doc_id)
            /\ upload_pc' = "done"
       ELSE UNCHANGED <<upload_response, upload_pc>>
    /\ UNCHANGED <<now, upload_req, doc_id, chunks, vectors, uploads,
                   index_before, query_task>>

\* index.upsert raises: HTTPException(500, "Failed to store vectors in Pinecone")
UpsertBatchFail ==
    /\ upload_pc = "upsert"
    /\ upload_response' = HTTPException(500)
    /\ upload_pc' = "done"
    /\ UNCHANGED <<index, now, upload_req, doc_id, chunks, vectors, batch_start,
                   uploads, index_before, stored, query_task>>

\* a second passes; the handler reads the clock only when it makes doc_id,
\* so the seconds that pass while an upload is handled are not counted
Tick ==
    /\ upload_pc \in {"idle", "done"}
    /\ now < MaxTime
    /\ now' = now + 1
    /\ UNCHANGED <<index, upload_pc, upload_req, doc_id, chunks, vectors,
                   batch_start, upload_response, uploads, index_before, stored,
                   query_task>>

\* the index is empty and no query is being served
InitUpload ==
    /\ index = {}
    /\ pc = "idle"
    /\ FreshLocals
    /\ running = 1
    /\ parked = IdleTask
    /\ NoUpload

NextUpload ==
    \/ UploadRejected
    \/ UploadAccepted
    \/ ChunkOk
    \/ ChunkEmpty
    \/ ChunkFail
    \/ EmbedChunksOk
    \/ EmbedChunksFail
    \/ UpsertBatchOk
    \/ UpsertBatchFail
    \/ Tick

SpecUpload == InitUpload /\ [][NextUpload]_vars

\* ------------------------------------------------------------------
\* Properties
\* ------------------------------------------------------------------
\* number of candidates of list s that belong to document d
CountOf(s, d) == Cardinality({i \in 1..Len(s) : doc_id_of(s[i]) = d})

DocIdsOf(s) == {doc_id_of(s[i]) : i \in 1..Len(s)}

\* C1: for every candidate list and every max_per_doc >= 0, mmr_diversify
\* returns a list no longer than its input in which each document_id occurs
\* at most max_per_doc times (a candidate without document_id counts for
\* the document "unknown"); an empty input yields an empty output.
C1_DiversifyCap ==
    pc = "returned_mmr_diversify" =>
        /\ Len(diversified) <= Len(retrieved)
        /\ \A d \in DocIdsOf(retrieved) \cup DocIdsOf(diversified) :
                CountOf(diversified, d) <= max_per_doc
        /\ (retrieved = <<>> => diversified = <<>>)

\* a call that dropped a candidate and kept another one
C1_Witness ==
    /\ pc = "returned_mmr_diversify"
    /\ max_per_doc >= 1
    /\ diversified # <<>>
    /\ Len(diversified) < Len(retrieved)

\* positions of s that hold one of the first cap candidates of their document
FirstOccurrences(s, cap) ==
    {i \in 1..Len(s) :
        Cardinality({j \in 1..(i - 1) : doc_id_of(s[j]) = doc_id_of(s[i])}) < cap}

\* the subsequence of s at the positions K, from position i on
RECURSIVE SubseqAt(_, _, _)
SubseqAt(s, K, i) ==
    IF i > Len(s) THEN <<>>
    ELSE (IF i \in K THEN <<s[i]>> ELSE <<>>) \o SubseqAt(s, K, i + 1)

SortedBySimilarity(s) == \A i \in 1..(Len(s) - 1) : s[i].score >= s[i + 1].score

\* C2: the output of mmr_diversify is the subsequence of its input, in input
\* order, made of the first min(max_per_doc, count) candidates of every
\* document; when the input is sorted by descending similarity every dropped
\* candidate scores no higher than every kept candidate of its document.
C2_DiversifyKeepsFirst ==
    pc = "returned_mmr_diversify" =>
        LET K == FirstOccurrences(retrieved, max_per_doc)
        IN  /\ diversified = SubseqAt(retrieved, K, 1)
            /\ \A d \in DocIdsOf(retrieved) :
                    CountOf(diversified, d) = Min(max_per_doc, CountOf(retrieved, d))
            /\ SortedBySimilarity(retrieved) =>
                    \A i \in (1..Len(retrieved)) \ K, j \in K :
                        doc_id_of(retrieved[i]) = doc_id_of(retrieved[j]) =>
                            retrieved[i].score <= retrieved[j].score

\* two chunks of one document, max_per_doc = 1: only the first, higher one is kept
C2_Witness ==
    /\ pc = "returned_mmr_diversify"
    /\ max_per_doc = 1
    /\ Len(retrieved) = 2
    /\ doc_id_of(retrieved[1]) = doc_id_of(retrieved[2])
    /\ retrieved[1].score > retrieved[2].score
    /\ diversified = <<retrieved[1]>>

\* ------------------------------------------------------------------
\* Properties of the context budget (generate_answer)
\* ------------------------------------------------------------------
\* sum of the first n entries of a sequence of numbers
RECURSIVE SumFirst(_, _)
SumFirst(s, n) == IF n = 0 THEN 0 ELSE SumFirst(s, n - 1) + s[n]

\* generate_answer has run for the current query
Generated == pc = "done" /\ "chat" \in Range(calls)

\* the token counts the tokenizer can report for the block "[i] " + text
BlockCosts(text) ==
    {BlockPrefixTokens + text.toks, (BlockPrefixChars + text.chars) \div 4}

\* block_costs[i] is a token count of the block of the candidate at rank i
CostsAreOfBlocks ==
    /\ Len(block_costs) <= Len(ranked)
    /\ \A i \in 1..Len(block_costs) : block_costs[i] \in BlockCosts(ranked[i].text)

\* C3: the token costs of the blocks "[i] " + text of the sources returned
\* by generate_answer never sum to more than MAX_CONTEXT_TOKENS.
C3_SourcesWithinCeiling ==
    Generated =>
        /\ CostsAreOfBlocks
        /\ Len(sources) <= Len(block_costs)
        /\ SumFirst(block_costs, Len(sources)) <= MAX_CONTEXT_TOKENS

\* two blocks were accepted and the next one was refused
C3_Witness ==
    /\ Generated
    /\ response.kind = "result"
    /\ Len(response.sources) = 2
    /\ Len(ranked) > 2
    /\ SumFirst(block_costs, 2) > MAX_CONTEXT_TOKENS \div 2

\* C4: the accepted candidates are exactly the longest prefix of the ranked
\* list whose cumulative block cost stays <= the ceiling: nothing after the
\* first candidate that does not fit is admitted, no chunk is truncated, and
\* a first candidate that alone exceeds the ceiling leaves no block and no
\* source.
C4_GreedyPrefix ==
    Generated =>
        LET n == Len(sources)
        IN  /\ CostsAreOfBlocks
            /\ Len(context_blocks) = n
            /\ n <= Len(ranked)
            /\ \A i \in 1..n :
                /\ context_blocks[i].text = ranked[i].text
                /\ sources[i].metadata = ranked[i].metadata
            /\ SumFirst(block_costs, n) <= MAX_CONTEXT_TOKENS
            /\ n = Len(ranked) => Len(block_costs) = n
            /\ n < Len(ranked) =>
                /\ Len(block_costs) = n + 1
                /\ SumFirst(block_costs, n + 1) > MAX_CONTEXT_TOKENS
            /\ (ranked # <<>> /\ block_costs[1] > MAX_CONTEXT_TOKENS) =>
                    (context_blocks = <<>> /\ sources = <<>>)

\* a candidate did not fit, and a later one that would have fit was left out
C4_Witness ==
    /\ Generated
    /\ Len(sources) >= 1
    /\ Len(sources) + 1 < Len(ranked)
    /\ \E j \in (Len(sources) + 2)..Len(ranked) :
        \A c \in BlockCosts(ranked[j].text) :
            SumFirst(block_costs, Len(sources)) + c <= MAX_CONTEXT_TOKENS

\* C5: the source ids are exactly 1..n in order, and the i-th context block
\* is "[i] " + the full text of the candidate at rank i, the candidate that
\* the source with id i describes.
C5_CitationNumbers ==
    (Generated /\ response.kind = "result") =>
        LET n == Len(response.sources)
        IN  /\ response.sources = sources
            /\ Len(context_blocks) = n
            /\ n <= Len(ranked)
            /\ \A i \in 1..n :
                /\ sources[i].id = i
                /\ context_blocks[i] = [cite |-> i, text |-> ranked[i].text]
                /\ sources[i].metadata = ranked[i].metadata
                /\ sources[i].preview.of = ranked[i].text.name

\* a result with two numbered sources of different candidates
C5_Witness ==
    /\ Generated
    /\ response.kind = "result"
    /\ Len(response.sources) >= 2
    /\ ranked[1].text # ranked[2].text

\* ------------------------------------------------------------------
\* Properties of the query handler
\* ------------------------------------------------------------------
Returned == pc = "done" /\ response.kind = "result"

\* C6: in every QueryResult the citation indices that appear in the answer
\* text are a subset of 1..len(sources).
C6_CitationsWithinSources ==
    Returned => response.answer.citations \subseteq 1..Len(response.sources)

IsNoMatchResult ==
    /\ Returned
    /\ response.answer = NoMatchAnswer
    /\ response.sources = <<>>

\* C7 as stated: a query on an empty index always ends with the canned
\* no-match answer and no sources, whatever the query text.
C7_EmptyIndexAlwaysNoMatch ==
    (index = {} /\ pc = "done") => IsNoMatchResult

\* C7 amended: on an empty index a blank query is rejected with 400 before
\* any call; a non-blank query ends with the canned no-match answer and no
\* sources whenever the embedding and vector-index calls succeed, and with
\* an error of the failed call otherwise; no other answer is ever returned.
C7_EmptyIndexNoMatch ==
    (index = {} /\ pc = "done") =>
        /\ req.query.stripped = 0 =>
                (response = HTTPException(400) /\ calls = <<>>)
        /\ (req.query.stripped # 0 /\ calls = <<"embed", "index_query">>
                /\ response.kind # "error") => IsNoMatchResult
        /\ response.kind = "result" => IsNoMatchResult
        /\ response.kind = "error" =>
                \/ req.query.stripped = 0
                \/ calls = <<"embed">>
                \/ (calls = <<"embed", "index_query">> /\ response.status = 500)

\* a non-blank query on the empty index got the canned answer
C7_Witness ==
    /\ index = {}
    /\ req.query = QSolar
    /\ IsNoMatchResult

\* positions of the retrieved matches that carry a text payload
TextBearing == {i \in 1..Len(matches) : "text" \in DOMAIN matches[i].metadata}

\* C8: the no-match short-circuit is taken exactly when retrieval returns no
\* entry with a text payload; on that path the rerank and chat-completion
\* services are never called, no later stage runs, and the usage is that of
\* the embedding call alone: llm_input_tokens = llm_output_tokens = 0,
\* total_tokens = embedding_tokens, LLM and rerank costs 0.
C8_NoMatchShortCircuit ==
    /\ (pc \in {"rerank", "generate"} \/ "rerank" \in Range(calls)
            \/ "chat" \in Range(calls)) => TextBearing # {}
    /\ Returned => (response.answer = NoMatchAnswer <=> TextBearing = {})
    /\ (Returned /\ TextBearing = {}) =>
        /\ calls = <<"embed", "index_query">>
        /\ diversified = <<>> /\ rerank_status = "none" /\ ranked = <<>>
        /\ block_costs = <<>> /\ context_blocks = <<>>
        /\ response.sources = <<>>
        /\ response.token_estimate.embedding_tokens = query_tokens
        /\ response.token_estimate.llm_input_tokens = 0
        /\ response.token_estimate.llm_output_tokens = 0
        /\ response.token_estimate.total_tokens =
                response.token_estimate.embedding_tokens
        /\ response.token_estimate.costs.llm_usd = 0
        /\ response.token_estimate.costs.rerank_usd = 0
        /\ response.token_estimate.costs.total_usd =
                response.token_estimate.costs.embedding_usd

\* retrieval returned an entry, but none with a text: the short-circuit ran
C8_Witness ==
    /\ Returned
    /\ matches # <<>>
    /\ TextBearing = {}
    /\ response.answer = NoMatchAnswer
    /\ query_tokens > 0

\* ------------------------------------------------------------------
\* Properties of rerank_documents
\* ------------------------------------------------------------------
\* candidate d of the output is candidate c of the input with a rerank score
IsReranked(d, c) ==
    /\ "rerank_score" \in DOMAIN d
    /\ "rerank_score" \notin DOMAIN c
    /\ DictWithout(d, "rerank_score") = c

\* C9: when the rerank call succeeds, rerank_documents returns candidates of
\* its input sorted by descending relevance score, and the returned list has
\* length min(top_n, len(candidates)).
C9_RerankSortedTopN ==
    rerank_status = "ok" =>
        /\ Len(ranked) = Min(req.rerank_top_n, Len(diversified))
        /\ \A i \in 1..Len(ranked) :
                \E j \in 1..Len(diversified) : IsReranked(ranked[i], diversified[j])
        /\ \A i, j \in 1..Len(ranked) :
                (i # j) => DictWithout(ranked[i], "rerank_score")
                                # DictWithout(ranked[j], "rerank_score")
        /\ \A i \in 1..(Len(ranked) - 1) :
                ranked[i].rerank_score >= ranked[i + 1].rerank_score

\* a successful rerank that truncated the list and changed its order
C9_Witness ==
    /\ rerank_status = "ok"
    /\ Len(ranked) = 2
    /\ Len(diversified) = 3
    /\ ranked[1].rerank_score > ranked[2].rerank_score
    /\ IsReranked(ranked[1], diversified[3])

\* C10: when the rerank call raises, rerank_documents(query, docs, n) returns
\* docs[:n]: the first n candidates (all but the last -n for a negative n),
\* unchanged and in their original order.
C10_RerankFailurePrefix ==
    rerank_status = "failed" =>
        LET n == req.rerank_top_n
        IN  /\ diversified # <<>>
            /\ Len(ranked) = IF n >= 0 THEN Min(n, Len(diversified))
                             ELSE Max(Len(diversified) + n, 0)
            /\ \A i \in 1..Len(ranked) : ranked[i] = diversified[i]

\* a failed rerank of three candidates with top_n = 2
C10_Witness ==
    /\ rerank_status = "failed"
    /\ req.rerank_top_n = 2
    /\ Len(diversified) = 3
    /\ ranked = <<diversified[1], diversified[2]>>

\* ------------------------------------------------------------------
\* Properties of the failure paths
\* ------------------------------------------------------------------
\* the external calls that raised for the current query
RaisedCalls == {raised[i].call : i \in 1..Len(raised)}

\* C11: a failure of the rerank service never aborts the query: the handler
\* goes on to generate_answer with no error set, and when embedding,
\* retrieval and the chat completion succeed it ends with a QueryResult.
C11_RerankFailureContinues ==
    rerank_status = "failed" =>
        /\ "rerank" \in RaisedCalls
        /\ pc \in {"generate", "done"}
        /\ pc = "generate" => response = NoResponse
        /\ pc = "done" =>
            /\ "chat" \in Range(calls)
            /\ response.kind = "error" => "chat" \in RaisedCalls
            /\ RaisedCalls = {"rerank"} => response.kind = "result"

\* the rerank call raised and the query still returned a QueryResult
C11_Witness ==
    /\ rerank_status = "failed"
    /\ pc = "done"
    /\ RaisedCalls = {"rerank"}
    /\ response.kind = "result"
    /\ Len(response.sources) >= 1

\* C12: an empty or whitespace-only query is rejected at once with the
\* validation error 400, and no external call is made for it.
C12_BlankQueryRejected ==
    (pc # "idle" /\ req.query.stripped = 0) =>
        /\ pc = "done"
        /\ response = HTTPException(400)
        /\ calls = <<>>
        /\ raised = <<>>
        /\ timing = EmptyDict

\* the whitespace-only query was rejected
C12_Witness ==
    /\ pc = "done"
    /\ req.query = QBlank
    /\ response = HTTPException(400)

\* the call whose exception ended the query
Aborted == pc = "done" /\ raised # <<>> /\ raised[Len(raised)].call # "rerank"

AbortedBy == raised[Len(raised)]

\* C13 as stated: a failure of an external call in EMBED, RETRIEVE or
\* GENERATE is surfaced as 429 when it is a rate-limit signal of the
\* embedding or generation service, and as 503 in every other case.
C13_RateLimitOrUnavailable ==
    Aborted =>
        /\ response.kind = "error"
        /\ response.status =
            IF AbortedBy.call \in {"embed", "chat"} /\ AbortedBy.exception = "RateLimitError"
            THEN 429 ELSE 503

\* C13 amended: such a failure is surfaced as exactly one of three errors:
\* a rate-limit signal of the embedding or generation service as 429, any
\* other API error of these two services as 503, and any other exception of
\* these calls as well as every failure of the vector index as 500.
C13_ErrorClassification ==
    Aborted =>
        /\ response.kind = "error"
        /\ response.status =
            IF AbortedBy.call = "index_query" THEN 500
            ELSE IF AbortedBy.exception = "RateLimitError" THEN 429
            ELSE IF AbortedBy.exception = "APIError" THEN 503
            ELSE 500

\* the chat completion signalled a rate limit
C13_Witness ==
    /\ Aborted
    /\ AbortedBy = Raise("chat", "RateLimitError")
    /\ response = HTTPException(429)

\* C14: a failure in EMBED or RETRIEVE aborts the query at once: no later
\* stage runs, no rerank or chat-completion call is made, and the caller
\* gets an error, never a QueryResult; a failure in GENERATE likewise yields
\* only an error.
C14_FailureAborts ==
    /\ (RaisedCalls \cap {"embed", "index_query"} # {}) =>
        /\ pc = "done"
        /\ response.kind = "error"
        /\ calls[Len(calls)] = raised[1].call
        /\ Len(raised) = 1
        /\ "rerank" \notin Range(calls) /\ "chat" \notin Range(calls)
        /\ retrieved = <<>> /\ diversified = <<>> /\ rerank_status = "none"
        /\ ranked = <<>> /\ context_blocks = <<>> /\ sources = <<>>
        /\ "embed" \in RaisedCalls => (matches = <<>> /\ calls = <<"embed">>)
    /\ "chat" \in RaisedCalls =>
        /\ pc = "done"
        /\ response.kind = "error"

\* the vector index raised after a successful embedding
C14_Witness ==
    /\ pc = "done"
    /\ raised = <<Raise("index_query", "Exception")>>
    /\ calls = <<"embed", "index_query">>
    /\ response.kind = "error"

PipelineOrder == <<"embed", "index_query", "rerank", "chat">>

\* C15: the external calls of a query are a prefix of <embed, vector-index
\* query, rerank, chat completion>: the stages run in that order, every
\* service is called at most once, and no call is made again after it failed.
C15_CallsInOrder ==
    /\ Len(calls) <= Len(PipelineOrder)
    /\ \A i \in 1..Len(calls) : calls[i] = PipelineOrder[i]
    /\ \A i \in 1..Len(raised) :
        /\ Cardinality({j \in 1..Len(calls) : calls[j] = raised[i].call}) = 1
        /\ \A j \in 1..Len(raised) : raised[i].call = raised[j].call => i = j

\* all four services were called, the rerank call having failed
C15_Witness ==
    /\ pc = "done"
    /\ calls = PipelineOrder
    /\ "rerank" \in RaisedCalls

\* ------------------------------------------------------------------
\* Properties of the returned sources, scores and timing
\* ------------------------------------------------------------------
\* the block "[i] " + text stays within the ceiling however it is counted
BlockFits(text) == \A cost \in BlockCosts(text) : cost <= MAX_CONTEXT_TOKENS

\* the query ran to a QueryResult with rerank_top_n >= 1 and no failed call
ServedWithoutFailure ==
    /\ Returned
    /\ raised = <<>>
    /\ req.rerank_top_n >= 1

\* C16 as stated: for rerank_top_n >= 1, if retrieval returns at least one
\* text-bearing candidate whose block fits the context ceiling and no service
\* call fails, the QueryResult has at least one source.
C16_FittingCandidateGivesSource ==
    (ServedWithoutFailure
        /\ \E i \in TextBearing : BlockFits(matches[i].metadata.text))
    => Len(response.sources) >= 1

\* C16 amended: for rerank_top_n >= 1, if retrieval returns at least one
\* text-bearing candidate and no service call fails, a candidate is ranked
\* first, and the QueryResult has at least one source whenever the block of
\* that first-ranked candidate fits the context ceiling.
C16_FirstRankedFits ==
    (ServedWithoutFailure /\ TextBearing # {}) =>
        /\ ranked # <<>>
        /\ Len(block_costs) >= 1
        /\ block_costs[1] \in BlockCosts(ranked[1].text)
        /\ block_costs[1] <= MAX_CONTEXT_TOKENS =>
            /\ Len(response.sources) >= 1
            /\ response.sources[1].id = 1
            /\ response.sources[1].metadata = ranked[1].metadata

\* the single chunk of d1 was retrieved and returned as the one source
C16_Witness ==
    /\ ServedWithoutFailure
    /\ index = {VSolar}
    /\ req.query = QSolar
    /\ Len(response.sources) = 1
    /\ response.sources[1].metadata.document_id = "d1"

\* the stage times recorded in a timing map
StageKeys(t) == DOMAIN t \ {"total"}

\* C17: every QueryResult returned by query_documents has a timing map with
\* a total entry equal to the sum of the stage times recorded in that map.
C17_TimingTotal ==
    Returned =>
        /\ "total" \in DOMAIN response.timing
        /\ response.timing["total"] =
                sum_values(response.timing, StageKeys(response.timing))

\* C18: each source record carries the best available score of its
\* candidate: the rerank score if it has one, else the similarity score,
\* else 0; after a successful rerank every source's score is a rerank score,
\* after a failed rerank it is the similarity score from retrieval.
C18_BestAvailableScore ==
    Generated =>
        /\ Len(sources) <= Len(ranked)
        /\ \A i \in 1..Len(sources) :
            LET doc == ranked[i]
            IN  /\ sources[i].score =
                    IF "rerank_score" \in DOMAIN doc THEN doc.rerank_score
                    ELSE IF "score" \in DOMAIN doc THEN doc.score
                    ELSE 0
                /\ rerank_status = "ok" =>
                    /\ "rerank_score" \in DOMAIN doc
                    /\ sources[i].score \in RelevanceSet
                /\ rerank_status = "failed" =>
                    /\ "rerank_score" \notin DOMAIN doc
                    /\ \E m \in TextBearing :
                        /\ matches[m].score = sources[i].score
                        /\ matches[m].metadata.text = doc.text
                        /\ sources[i].score = similarity(req.query, matches[m])
        /\ Returned => response.sources = sources

\* a source with a rerank score that differs from its similarity score
C18_Witness ==
    /\ Returned
    /\ rerank_status = "ok"
    /\ Len(response.sources) >= 1
    /\ response.sources[1].score = ranked[1].rerank_score
    /\ response.sources[1].score # ranked[1].score

\* the k-th entry of matches that carries a text
TextBearingAt(k) ==
    CHOOSE i \in TextBearing : Cardinality({j \in TextBearing : j <= i}) = k

\* the candidate without the score the reranker may have added
AsRetrieved(doc) == DictWithout(doc, "rerank_score")

\* C19: retrieved entries without a text are dropped before diversification:
\* none is passed to the diversity filter, the reranker or the budgeter, none
\* counts toward a document's cap, none appears in sources, and the metadata
\* of every candidate passed on has the text field removed.
C19_TextlessDropped ==
    /\ Len(retrieved) = IF pc \in {"idle", "embed", "retrieve"} THEN 0
                        ELSE Cardinality(TextBearing)
    /\ \A k \in 1..Len(retrieved) :
        LET m == matches[TextBearingAt(k)]
        IN  /\ retrieved[k].text = m.metadata.text
            /\ retrieved[k].score = m.score
            /\ DOMAIN retrieved[k].metadata = DOMAIN m.metadata \ {"text"}
            /\ \A key \in DOMAIN retrieved[k].metadata :
                    retrieved[k].metadata[key] = m.metadata[key]
    /\ \A i \in 1..Len(diversified) : diversified[i] \in Range(retrieved)
    /\ \A i \in 1..Len(ranked) : AsRetrieved(ranked[i]) \in Range(retrieved)
    /\ (pc \in {"rerank", "generate", "done"} /\ retrieved # <<>>) =>
        \A d \in DocIdsOf(retrieved) :
            CountOf(diversified, d) = Min(max_per_doc, CountOf(retrieved, d))
    /\ \A i \in 1..Len(sources) :
        /\ "text" \notin DOMAIN sources[i].metadata
        /\ \E k \in 1..Len(retrieved) : sources[i].metadata = retrieved[k].metadata
    /\ Returned => response.sources = sources

\* two entries of d2 without a text ranked above a chunk of d2 with one: the
\* chunk still passed the diversity filter with a cap of two per document
C19_Witness ==
    /\ pc = "done"
    /\ Len(matches) = 3
    /\ TextBearing = {3}
    /\ doc_id_of(matches[1]) = doc_id_of(matches[3])
    /\ doc_id_of(matches[2]) = doc_id_of(matches[3])
    /\ max_per_doc = 2
    /\ Len(diversified) = 1
    /\ diversified[1].text = matches[3].metadata.text
    /\ "text" \notin DOMAIN diversified[1].metadata

\* ------------------------------------------------------------------
\* Properties of two queries served together
\* ------------------------------------------------------------------
\* the calls that raised in the invocation with the locals ctx
RaisedIn(ctx) == {ctx.raised[i].call : i \in 1..Len(ctx.raised)}

\* the exception that call raised in the invocation with the locals ctx
ExceptionIn(ctx, call) ==
    (CHOOSE x \in Range(ctx.raised) : x.call = call).exception

\* the timing map has the stages keys, each with a time of that stage
TimingOf(t, stages) ==
    /\ StageKeys(t) = stages
    /\ \A stage \in stages : t[stage] \in ElapsedSet(stage)

\* the response with the locals ctx is the one query_documents gives for
\* ctx.req alone, on the index and with the service responses of ctx
SoloOutcome(ctx) ==
    LET r == ctx.req
        q_tokens == ctx.query_tokens
        docs == extract_docs(ctx.matches)
        candidates == mmr_diversify(docs, 2)
        n == rerank_request_top_n(candidates, r.rerank_top_n)
        out == ctx.response
    IN  IF "embed" \in RaisedIn(ctx)
        THEN out = HTTPException(openai_error_status(ExceptionIn(ctx, "embed")))
        ELSE
        /\ \E tiktoken_ok \in BOOLEAN :
                q_tokens = get_token_count(r.query.chars, r.query.toks, tiktoken_ok)
        /\ IF "index_query" \in RaisedIn(ctx) THEN out = HTTPException(500)
           ELSE
           /\ ctx.matches \in index_query(index, r.query, r.top_k)
           /\ IF docs = <<>>
              THEN /\ "timing" \in DOMAIN out
                   /\ out = DictSet(no_match_response(q_tokens), "timing", out.timing)
                   /\ DOMAIN out.timing = {"embedding", "retrieval"}
                   /\ TimingOf(out.timing, {"embedding", "retrieval"})
              ELSE
              /\ IF "rerank" \in RaisedIn(ctx)
                 THEN ctx.ranked = rerank_documents(candidates, r.rerank_top_n, <<"raise">>)
                 ELSE \E results \in rerank_service(Len(candidates), n) :
                        ctx.ranked = rerank_documents(candidates, r.rerank_top_n,
                                                      <<"ok", results>>)
              /\ IF "chat" \in RaisedIn(ctx)
                 THEN out = HTTPException(openai_error_status(ExceptionIn(ctx, "chat")))
                 ELSE
                 /\ out.kind = "result"
                 /\ \E tiktoken_ok \in [1..Len(ctx.ranked) -> BOOLEAN] :
                        out.sources = fill_context(ctx.ranked, tiktoken_ok).sources
                 /\ \E completion \in ChatCompletionSet :
                        /\ out.answer = completion.answer
                        /\ out.token_estimate =
                            [embedding_tokens |-> q_tokens,
                             llm_input_tokens |-> completion.usage.input,
                             llm_output_tokens |-> completion.usage.output,
                             total_tokens |-> q_tokens + completion.usage.total,
                             costs |-> query_costs(q_tokens, completion.usage)]
                 /\ TimingOf(out.timing,
                             {"embedding", "retrieval", "reranking", "generation"})
                 /\ "total" \in DOMAIN out.timing
                 /\ out.timing["total"] = sum_values(out.timing, StageKeys(out.timing))

\* C20: query tasks share no mutable state: however two queries are
\* interleaved, the outcome of each (QueryResult or error, with its timing
\* keys, sources and token_estimate) is the one it has when it runs alone
\* with the same responses of the external services.
C20_OutcomeAsIfAlone ==
    /\ pc = "done" => SoloOutcome(Locals)
    /\ parked.pc = "done" => SoloOutcome(parked)
    /\ running \in {1, 2}

\* both queries were served, stage by stage in turn: one took the no-match
\* path, the other returned a source after a rerank
C20_Witness ==
    /\ pc = "done"
    /\ parked.pc = "done"
    /\ response.kind = "result"
    /\ response.answer = NoMatchAnswer
    /\ parked.response.kind = "result"
    /\ Len(parked.response.sources) = 1
    /\ "reranking" \in DOMAIN parked.response.timing
    /\ "reranking" \notin DOMAIN response.timing

\* ------------------------------------------------------------------
\* Properties of the sources against the cap and rerank_top_n
\* ------------------------------------------------------------------
\* the number of sources of document d
SourcesOf(d) ==
    Cardinality({i \in 1..Len(response.sources) :
                    doc_id_of(response.sources[i]) = d})

\* no document has more than 2 sources
SourcesWithinCap ==
    \A i \in 1..Len(response.sources) :
        SourcesOf(doc_id_of(response.sources[i])) <= 2

\* C22 as stated: in every QueryResult no document_id occurs in more than 2
\* sources and the number of sources is at most rerank_top_n, on the
\* successful and on the degraded rerank path.
C22_SourcesWithinCapAndTopN ==
    Returned =>
        /\ SourcesWithinCap
        /\ Len(response.sources) <= req.rerank_top_n

\* C22 amended: in every QueryResult no document_id occurs in more than 2
\* sources, and the number of sources is at most rerank_top_n when
\* rerank_top_n >= 0; for a negative rerank_top_n the rerank call fails and
\* the sources are at most the candidates left by the diversity filter less
\* the last -rerank_top_n.
C22_SourcesWithinCapAndSlice ==
    Returned =>
        /\ SourcesWithinCap
        /\ Len(response.sources) <= Len(ranked)
        /\ req.rerank_top_n >= 0 => Len(response.sources) <= req.rerank_top_n
        /\ req.rerank_top_n < 0 =>
            /\ rerank_status # "ok"
            /\ Len(response.sources) <=
                    Max(Len(diversified) + req.rerank_top_n, 0)

\* three short chunks of one document were retrieved and all three fit the
\* context ceiling together; with rerank_top_n = 3 and a failed rerank two
\* of them were returned as sources
C22_Witness ==
    /\ Returned
    /\ rerank_status = "failed"
    /\ req.rerank_top_n = 3
    /\ Len(retrieved) = 3
    /\ CountOf(retrieved, "d1") = 3
    /\ \A i \in 1..3 : retrieved[i].text = TxtSolar
    /\ Len(response.sources) = 2
    /\ SourcesOf("d1") = 2

\* ------------------------------------------------------------------
\* Properties of upload_document
\* ------------------------------------------------------------------
\* two records of stored are of two distinct chunks
DistinctChunks(a, b) == a.upload # b.upload \/ a.chunk_index # b.chunk_index

\* C21: any two distinct chunks written to the index by upload_document, in
\* one upload or in two uploads, have distinct (document_id, chunk_index) and
\* distinct vector ids, so no upload overwrites a chunk another upload stored.
C21_ChunkIdentity ==
    /\ \A a, b \in stored :
        DistinctChunks(a, b) =>
            /\ <<a.document_id, a.chunk_index>> # <<b.document_id, b.chunk_index>>
            /\ a.id # b.id
    /\ \A a \in stored :
        \E v \in index :
            /\ v.id = a.id
            /\ v.metadata.text = a.text
    /\ Cardinality(index) = Cardinality(stored)

\* C23: an upload_document request that ends in an error response leaves the
\* index as it was when the request arrived: no chunk of the failed document
\* is stored, wherever the failure occurs.
C23_FailedUploadStoresNothing ==
    (upload_pc = "done" /\ upload_response.kind = "error") =>
        /\ index = index_before
        /\ \A a \in stored : a.upload # uploads

====
